---- MODULE Spec2Model ----
(***************************************************************************)
(* A model of core/lib/stats2.js: the statistics snapshot of a load test   *)
(* (counters and named latency histograms), its aggregation (combine),     *)
(* its transfer form (serialize / deserialize) and its report.             *)
(*                                                                         *)
(* Modelling conventions                                                   *)
(*  - A JavaScript string is a sequence of text atoms; the atoms used are  *)
(*    chosen so that no search pattern of the code can match across an     *)
(*    atom boundary, hence startsWith and split on atoms agree with        *)
(*    startsWith and split on characters.                                  *)
(*  - A JavaScript object used as a map is an ordered map: a sequence of   *)
(*    [k, v] entries in insertion order without duplicate keys.  Keys are  *)
(*    ordinary metric names (no key is a property inherited from           *)
(*    Object.prototype, no key is an array index).                         *)
(*  - `undefined` as a value is the empty sequence <<>>, a defined number  *)
(*    n is <<n>>.                                                          *)
(*  - Numbers are integers; n / 10 is kept as the pair <<n, 10>>.          *)
(*  - HdrHistogram (hdr-histogram-js) is an external library: a histogram  *)
(*    is the bag of the values recorded into it, and its operations follow *)
(*    the library contract the specification states.  Histograms are heap  *)
(*    objects: a snapshot holds references into `heap`.                    *)
(***************************************************************************)
EXTENDS Integers, Sequences, FiniteSets, Bags, TLC

VARIABLES snaps, heap, wire, wireReport, wireSource, out, lastOp, sums, negSeen, steps

vars == <<snaps, heap, wire, wireReport, wireSource, out, lastOp, sums, negSeen, steps>>

(***************************************************************************)
(* Bounds of the model.                                                    *)
(***************************************************************************)
MaxSnaps == 2
MaxSteps == 3
MaxDelta == 2

SnapIds == 1 .. MaxSnaps

(***************************************************************************)
(* Strings.                                                                *)
(***************************************************************************)
Undefined == <<>>

Def(v) == <<v>>

StartsWith(s, p) == Len(s) >= Len(p) /\ SubSeq(s, 1, Len(p)) = p

\* String.prototype.indexOf(sep, from), 1-based; 0 when there is no match.
IndexOf(s, sep, from) ==
  LET hits == {i \in from .. (Len(s) - Len(sep) + 1) :
                 SubSeq(s, i, i + Len(sep) - 1) = sep}
  IN IF hits = {} THEN 0 ELSE CHOOSE i \in hits : \A j \in hits : i <= j

\* String.prototype.split(sep) for a non-empty separator: the pieces between
\* the non-overlapping matches of sep, found left to right.
RECURSIVE Split(_, _)
Split(s, sep) ==
  LET i == IndexOf(s, sep, 1)
  IN IF i = 0 THEN <<s>>
     ELSE <<SubSeq(s, 1, i - 1)>> \o Split(SubSeq(s, i + Len(sep), Len(s)), sep)

\* name.split(sep)[1] used as a property key: a missing element is undefined,
\* and undefined as a property key is the string 'undefined'.
SplitKey1(name, sep) ==
  LET parts == Split(name, sep)
  IN IF Len(parts) >= 2 THEN parts[2] ELSE <<"undefined">>

(***************************************************************************)
(* Ordered maps: JavaScript objects used as maps.                          *)
(***************************************************************************)
EmptyObj == <<>>

Keys(o) == {o[i].k : i \in 1 .. Len(o)}

Has(o, key) == key \in Keys(o)

Get(o, key) == (CHOOSE i \in 1 .. Len(o) : o[i].k = key)

Val(o, key) == o[Get(o, key)].v

\* o[key] as an expression: undefined when the key is absent.
Lookup(o, key) == IF Has(o, key) THEN Def(Val(o, key)) ELSE Undefined

\* o[key] = v: in place when the key exists, appended otherwise.
Put(o, key, v) ==
  IF Has(o, key)
    THEN [i \in 1 .. Len(o) |-> IF o[i].k = key THEN [k |-> key, v |-> v] ELSE o[i]]
    ELSE Append(o, [k |-> key, v |-> v])

\* The mapping an object denotes, its insertion order forgotten.
AsMap(o) == [key \in Keys(o) |-> Val(o, key)]

(***************************************************************************)
(* HdrHistogram, the external latency distribution.  A histogram is the   *)
(* bag of recorded values; the encoded form is the list of its            *)
(* [value, count] runs in increasing order of value.                      *)
(***************************************************************************)
HistoBuild == EmptyBag

recordValue(h, n) == h (+) SetToBag({n})

HistoAdd(h, other) == h (+) other

SetMin(S) == CHOOSE x \in S : \A y \in S : x <= y

SetMax(S) == CHOOSE x \in S : \A y \in S : x >= y

minNonZeroValue(h) ==
  LET nz == {x \in BagToSet(h) : x # 0}
  IN IF nz = {} THEN Undefined ELSE Def(SetMin(nz))

maxValue(h) == IF BagToSet(h) = {} THEN Def(0) ELSE Def(SetMax(BagToSet(h)))

CountUpTo(h, x) ==
  BagCardinality([y \in {z \in BagToSet(h) : z <= x} |-> CopiesIn(y, h)])

getValueAtPercentile(h, p) ==
  LET total  == BagCardinality(h)
      want   == (2 * p * total + 100) \div 200
      target == IF want < 1 THEN 1 ELSE want
      reach  == {x \in BagToSet(h) : CountUpTo(h, x) >= target}
  IN IF reach = {} THEN Def(0) ELSE Def(SetMin(reach))

RECURSIVE Runs(_, _)
Runs(h, S) ==
  IF S = {} THEN <<>>
  ELSE LET x == SetMin(S)
       IN <<[value |-> x, count |-> CopiesIn(x, h)]>> \o Runs(h, S \ {x})

\* HdrHistogram.encodeIntoBase64String(histo)
encodeIntoBase64String(h) == [ok |-> TRUE, runs |-> Runs(h, BagToSet(h))]

RECURSIVE FromRuns(_)
FromRuns(runs) ==
  IF runs = <<>> THEN EmptyBag
  ELSE [x \in {runs[1].value} |-> runs[1].count] (+) FromRuns(Tail(runs))

\* HdrHistogram.decodeFromCompressedBase64(encoded); a string that is no
\* encoded histogram makes it throw (Decodable is FALSE).
Decodable(enc) == enc.ok

decodeFromCompressedBase64(enc) == FromRuns(enc.runs)

Undecodable == [ok |-> FALSE, runs |-> <<>>]

(***************************************************************************)
(* The heap of histogram objects.                                          *)
(***************************************************************************)
Fresh(h) ==
  CHOOSE r \in 1 .. (Cardinality(DOMAIN h) + 1) :
    r \notin DOMAIN h /\ \A q \in 1 .. (r - 1) : q \in DOMAIN h

Alloc(h, r, histo) == (r :> histo) @@ h

Refs(st) == {st.custom[i].v : i \in 1 .. Len(st.custom)}

\* Garbage collection: histograms no snapshot refers to are gone.
Collect(ss, h) ==
  LET reachable == UNION {Refs(ss[s]) : s \in DOMAIN ss}
  IN [r \in (DOMAIN h) \cap reachable |-> h[r]]

(***************************************************************************)
(* round(number, decimals) on the integers of this model: floor(x + 1/2)   *)
(* is Math.round.                                                          *)
(***************************************************************************)
RECURSIVE Pow10(_)
Pow10(d) == IF d = 0 THEN 1 ELSE 10 * Pow10(d - 1)

round(number, decimals) ==
  LET m == Pow10(decimals)
  IN ((2 * number * m + 1) \div 2) \div m

\* round applied to a possibly undefined number; round(undefined) is NaN,
\* kept as undefined.
RoundOpt(x, decimals) == IF x = Undefined THEN Undefined ELSE Def(round(x[1], decimals))

(***************************************************************************)
(* JSON text.  A number is written as a sign and decimal digits; an object *)
(* as the list of its members in insertion order.  A payload is what       *)
(* JSON.parse is given: `kind` tells text that is no JSON ("garbage"), the *)
(* text null, a scalar, or an object with its two members of interest,     *)
(* each missing (t = "missing"), a string (t = "string") or an object      *)
(* (t = "members").                                                        *)
(***************************************************************************)
RECURSIVE Digits(_)
Digits(n) == IF n < 10 THEN <<n>> ELSE Append(Digits(n \div 10), n % 10)

NumText(n) == IF n < 0 THEN [neg |-> TRUE, digits |-> Digits(0 - n)]
              ELSE [neg |-> FALSE, digits |-> Digits(n)]

RECURSIVE DigitsValue(_)
DigitsValue(ds) ==
  IF ds = <<>> THEN 0
  ELSE 10 * DigitsValue(SubSeq(ds, 1, Len(ds) - 1)) + ds[Len(ds)]

ParseNum(t) == IF t.neg THEN 0 - DigitsValue(t.digits) ELSE DigitsValue(t.digits)

Missing == [t |-> "missing", m |-> <<>>]

JString == [t |-> "string", m |-> <<>>]

JMembers(m) == [t |-> "members", m |-> m]

NoPayload == [kind |-> "none", counters |-> Missing, encodedHistograms |-> Missing]

(***************************************************************************)
(* A Stats object.  `ctype` is what _counters holds: an object (then       *)
(* `counters` is that object), undefined or a string (only deserialize     *)
(* can store those).  `custom` is _customStats: name -> histogram ref.     *)
(***************************************************************************)
NoSnap == [live |-> FALSE, ctype |-> "object", counters |-> EmptyObj, custom |-> EmptyObj]

\* !x for a counter slot: undefined and 0 are falsy.
Falsy(x) == x = Undefined \/ x = Def(0)

\* Stats.prototype.reset
reset(st) == [st EXCEPT !.custom = EmptyObj, !.counters = EmptyObj, !.ctype = "object"]

\* create() / new Stats()
create == reset([NoSnap EXCEPT !.live = TRUE])

\* A counter() that stores the value instead of adding it.
counter_assign(st, name, value) == [st EXCEPT !.counters = Put(@, name, value)]

\* A counter() that only creates an absent counter at 0 and adds nothing then.
counter_dropFirst(st, name, value) ==
  IF Falsy(Lookup(st.counters, name))
    THEN [st EXCEPT !.counters = Put(@, name, 0)]
    ELSE [st EXCEPT !.counters = Put(@, name, Val(@, name) + value)]

\* Stats.prototype.counter:
\* if (!this._counters[name]) this._counters[name] = 0; this._counters[name] += value.
counter(st, name, value) ==
  LET c0 == IF Falsy(Lookup(st.counters, name)) THEN Put(st.counters, name, 0)
            ELSE st.counters
  IN [st EXCEPT !.counters = Put(c0, name, Val(c0, name) + value)]

\* Stats.prototype.addCustomStat: the new snapshot and the new heap.
addCustomStat(st, h, name, n) ==
  LET has == Has(st.custom, name)
      r   == IF has THEN Val(st.custom, name) ELSE Fresh(h)
      h1  == IF has THEN h ELSE Alloc(h, r, HistoBuild)
  IN [st   |-> [st EXCEPT !.custom = Put(@, name, r)],
      heap |-> [h1 EXCEPT ![r] = recordValue(@, n)]]

\* Stats.prototype.clone (L.cloneDeep): every histogram is copied.
RECURSIVE CloneCustom(_, _, _)
CloneCustom(entries, acc, h) ==
  IF entries = <<>> THEN [custom |-> acc, heap |-> h]
  ELSE LET r == Fresh(h)
       IN CloneCustom(Tail(entries), Put(acc, entries[1].k, r),
                      Alloc(h, r, h[entries[1].v]))

clone(st, h) ==
  LET c == CloneCustom(st.custom, EmptyObj, h)
  IN [st |-> [st EXCEPT !.custom = c.custom], heap |-> c.heap]

\* A serialize() that leaves the counters out of the payload.
serialize_noCounters(st, h) ==
  [kind     |-> "object",
   counters |-> JMembers(<<>>),
   encodedHistograms |-> JMembers([i \in 1 .. Len(st.custom) |->
                  [k |-> st.custom[i].k, v |-> encodeIntoBase64String(h[st.custom[i].v])]])]

\* Stats.prototype.serialize.  (It also stores the encoded histograms in
\* this._encodedHistograms, which nothing but serialize itself reads and
\* which it rebuilds first; that field is not kept in the model.)
serialize(st, h) ==
  [kind     |-> "object",
   counters |-> JMembers([i \in 1 .. Len(st.counters) |->
                  [k |-> st.counters[i].k, v |-> NumText(st.counters[i].v)]]),
   encodedHistograms |-> JMembers([i \in 1 .. Len(st.custom) |->
                  [k |-> st.custom[i].k, v |-> encodeIntoBase64String(h[st.custom[i].v])]])]

\* L.reduce over o.encodedHistograms: each member decoded into a new histogram.
RECURSIVE DecodeAll(_, _, _)
DecodeAll(members, acc, h) ==
  IF members = <<>> THEN [custom |-> acc, heap |-> h]
  ELSE LET r == IF Has(acc, members[1].k) THEN Val(acc, members[1].k) ELSE Fresh(h)
       IN DecodeAll(Tail(members), Put(acc, members[1].k, r),
                    Alloc(h, r, decodeFromCompressedBase64(members[1].v)))

\* deserialize(serialized): err is "none" and st the new Stats object, or err
\* names what was thrown.
deserialize(payload, h) ==
  LET eh == payload.encodedHistograms
      cs == payload.counters
      failed(e) == [err |-> e, st |-> NoSnap, heap |-> h]
  IN IF payload.kind = "garbage" THEN failed("SyntaxError")
     ELSE IF payload.kind = "null" THEN failed("TypeError")
     ELSE IF eh.t = "members" /\ \E i \in 1 .. Len(eh.m) : ~Decodable(eh.m[i].v)
       THEN failed("DecodeError")
     ELSE LET d == DecodeAll(IF eh.t = "members" THEN eh.m ELSE <<>>, EmptyObj, h)
              c == IF cs.t = "members"
                     THEN [i \in 1 .. Len(cs.m) |->
                             [k |-> cs.m[i].k, v |-> ParseNum(cs.m[i].v)]]
                     ELSE EmptyObj
              ty == IF payload.kind = "scalar" \/ cs.t = "missing" THEN "undefined"
                    ELSE IF cs.t = "string" THEN "string" ELSE "object"
          IN [err  |-> "none",
              st   |-> [live |-> TRUE, ctype |-> ty, counters |-> c, custom |-> d.custom],
              heap |-> d.heap]

(***************************************************************************)
(* combine(statsObjects).  The inputs are Stats objects whose _counters is *)
(* an object.                                                              *)
(***************************************************************************)
\* A combine that stores an input's counter instead of adding it.
CombineCounter_assign(rc, name, value) == Put(rc, name, value)

\* A combine that adds nothing to a counter the result already has.
CombineCounter_first(rc, name, value) ==
  IF Falsy(Lookup(rc, name)) THEN Put(rc, name, value) ELSE rc

\* One counter of one input added into the result's counters.
CombineCounter(rc, name, value) ==
  LET c0 == IF Falsy(Lookup(rc, name)) THEN Put(rc, name, 0) ELSE rc
  IN Put(c0, name, Val(c0, name) + value)

RECURSIVE CombineCounters(_, _)
CombineCounters(entries, rc) ==
  IF entries = <<>> THEN rc
  ELSE CombineCounters(Tail(entries), CombineCounter(rc, entries[1].k, entries[1].v))

\* A merge that stores the input's own histogram object in the result when
\* the result has none under that name.
CombineHisto_shared(rcustom, h, name, histo) ==
  IF Has(rcustom, name)
    THEN [custom |-> rcustom,
          heap   |-> [h EXCEPT ![Val(rcustom, name)] = HistoAdd(@, h[histo])]]
    ELSE [custom |-> Put(rcustom, name, histo), heap |-> h]

\* One histogram of one input merged into the result's histogram of that
\* name, built first when the result has none.
CombineHisto(rcustom, h, name, histo) ==
  LET has == Has(rcustom, name)
      r   == IF has THEN Val(rcustom, name) ELSE Fresh(h)
      h1  == IF has THEN h ELSE Alloc(h, r, HistoBuild)
  IN [custom |-> Put(rcustom, name, r),
      heap   |-> [h1 EXCEPT ![r] = HistoAdd(@, h1[histo])]]

RECURSIVE CombineHistos(_, _, _)
CombineHistos(entries, rcustom, h) ==
  IF entries = <<>> THEN [custom |-> rcustom, heap |-> h]
  ELSE LET one == CombineHisto(rcustom, h, entries[1].k, entries[1].v)
       IN CombineHistos(Tail(entries), one.custom, one.heap)

RECURSIVE CombineEach(_, _, _)
CombineEach(statsObjects, result, h) ==
  IF statsObjects = <<>> THEN [st |-> result, heap |-> h]
  ELSE LET stats == statsObjects[1]
           hs    == CombineHistos(stats.custom, result.custom, h)
           next  == [result EXCEPT
                       !.counters = CombineCounters(stats.counters, @),
                       !.custom   = hs.custom]
       IN CombineEach(Tail(statsObjects), next, hs.heap)

combine(statsObjects, h) == CombineEach(statsObjects, create, h)

(***************************************************************************)
(* Stats.prototype.report.  The timestamp (the wall clock) is left out.    *)
(***************************************************************************)
ScenariosCreated == <<"scenarios.created">>
ScenariosCreatedDot == <<"scenarios.created", ".">>
ScenariosCompleted == <<"scenarios.completed">>
ScenariosSkipped == <<"scenarios.skipped">>
ResponsesReceived == <<"engine.http.", "responses_received">>
ResponseTime == <<"engine.http.", "response_time">>
ErrorsDot == <<"errors", ".">>
EngineHttpResponseCode == <<"engine.http.", "response_code">>
ResponseCodeDot == <<"response_code", ".">>
Matches == <<"matches">>

\* L.each(this._counters, ...) filling one of the report's maps: every
\* counter whose name starts with `prefix` is stored under
\* name.split(sep)[1]; a later counter overwrites an earlier one stored
\* under the same key.
RECURSIVE PrefixMap(_, _, _, _)
PrefixMap(entries, prefix, sep, acc) ==
  IF entries = <<>> THEN acc
  ELSE PrefixMap(Tail(entries), prefix, sep,
         IF StartsWith(entries[1].k, prefix)
           THEN Put(acc, SplitKey1(entries[1].k, sep), entries[1].v)
           ELSE acc)

scenarioCounts(counters) ==
  AsMap(PrefixMap(counters, ScenariosCreatedDot, ScenariosCreatedDot, EmptyObj))

errors(counters) == AsMap(PrefixMap(counters, ErrorsDot, ErrorsDot, EmptyObj))

codes(counters) ==
  AsMap(PrefixMap(counters, EngineHttpResponseCode, ResponseCodeDot, EmptyObj))

latency(ns) ==
  [min    |-> RoundOpt(minNonZeroValue(ns), 1),
   max    |-> RoundOpt(maxValue(ns), 1),
   median |-> RoundOpt(getValueAtPercentile(ns, 50), 1),
   p95    |-> RoundOpt(getValueAtPercentile(ns, 95), 1),
   p99    |-> RoundOpt(getValueAtPercentile(ns, 99), 1)]

customStat(ns) ==
  [min    |-> RoundOpt(minNonZeroValue(ns), 1),
   max    |-> RoundOpt(maxValue(ns), 1),
   median |-> RoundOpt(getValueAtPercentile(ns, 50), 1),
   p75    |-> RoundOpt(getValueAtPercentile(ns, 75), 1),
   p95    |-> RoundOpt(getValueAtPercentile(ns, 95), 1),
   p99    |-> RoundOpt(getValueAtPercentile(ns, 99), 1)]

\* requestsCompleted / 10
rpsMean(requestsCompleted) ==
  IF requestsCompleted = Undefined THEN Undefined ELSE <<requestsCompleted[1], 10>>

NoReport == [present |-> FALSE]

\* err is "none" and `report` the report object, or err is the TypeError
\* thrown when _counters is undefined (line 87), when it is a string (its
\* indices have no startsWith, line 91) or when the
\* 'engine.http.response_time' histogram is missing (line 103).
report(st, h) ==
  IF st.ctype # "object" \/ ~Has(st.custom, ResponseTime)
    THEN [err |-> "TypeError", report |-> NoReport]
  ELSE
    LET c  == st.counters
        ns == h[Val(st.custom, ResponseTime)]
        requestsCompleted == Lookup(c, ResponsesReceived)
    IN [err |-> "none",
        report |->
          [present            |-> TRUE,
           scenariosCreated   |-> Lookup(c, ScenariosCreated),
           scenarioCounts     |-> scenarioCounts(c),
           scenariosCompleted |-> Lookup(c, ScenariosCompleted),
           requestsCompleted  |-> requestsCompleted,
           latency            |-> latency(ns),
           rps                |-> [count |-> requestsCompleted,
                                   mean  |-> rpsMean(requestsCompleted)],
           errors             |-> errors(c),
           codes              |-> codes(c),
           matches            |-> Lookup(c, Matches),
           customStats        |-> [n \in Keys(st.custom) |->
                                     customStat(h[Val(st.custom, n)])],
           counters           |-> c,
           scenariosAvoided   |-> Lookup(c, ScenariosSkipped)]]

(***************************************************************************)
(* The calls a user of the module makes.  Snapshots live in the slots      *)
(* 1 .. MaxSnaps; a new object takes the first free slot.                  *)
(***************************************************************************)
CounterNames == {ResponsesReceived, ScenariosCreatedDot \o <<"a">>}

StatNames == {ResponseTime, <<"custom">>}

Samples == {1, 2}

\* The deltas callers pass: a negative one, zero and a positive one.
Deltas == {0 - 1, 0, MaxDelta}

Live == {s \in DOMAIN snaps : snaps[s].live}

HasFreeSlot == Live # DOMAIN snaps

FreeSlot == SetMin((DOMAIN snaps) \ Live)

NoOut == [err |-> "none", report |-> NoReport]

\* What a Stats object holds, the order of its keys forgotten.
ValueOf(st, h) ==
  [counters |-> AsMap(st.counters),
   custom   |-> [n \in Keys(st.custom) |-> h[Val(st.custom, n)]]]

\* History: what the serialized snapshot held and reported when serialize()
\* wrote the payload now in `wire`.
NoSource == [counters |-> <<>>, custom |-> <<>>]

Op(name, s, srcs) == [op |-> name, s |-> s, srcs |-> srcs]

\* History: the sum of the deltas passed to counter() for each name since
\* create() or the last reset(); `plain` is FALSE for an object that was
\* made by clone, combine or deserialize and not reset since.
\* `origin` names the call that made the object.
\* `cover` is used for the results of combine: the snapshots merged into it.
NoSums == [plain |-> TRUE, origin |-> "create", total |-> <<>>, cover |-> {}]

Derived(origin) == [plain |-> FALSE, origin |-> origin, total |-> <<>>, cover |-> {}]

AddDelta(sm, name, value) ==
  [sm EXCEPT !.total =
     IF name \in DOMAIN @ THEN [@ EXCEPT ![name] = @ + value]
     ELSE (name :> value) @@ @]

Tick == steps < MaxSteps /\ steps' = steps + 1

\* The first snapshot exists: every use of the module starts with create().
Init ==
  /\ snaps = [s \in SnapIds |-> IF s = 1 THEN create ELSE NoSnap]
  /\ heap = <<>>
  /\ wire = NoPayload
  /\ wireReport = NoOut
  /\ wireSource = NoSource
  /\ out = NoOut
  /\ lastOp = Op("init", 0, <<>>)
  /\ sums = [s \in SnapIds |-> NoSums]
  /\ negSeen = FALSE
  /\ steps = 0

Create ==
  /\ Tick
  /\ HasFreeSlot
  /\ snaps' = [snaps EXCEPT ![FreeSlot] = create]
  /\ sums' = [sums EXCEPT ![FreeSlot] = NoSums]
  /\ lastOp' = Op("create", FreeSlot, <<>>)
  /\ out' = NoOut
  /\ UNCHANGED <<heap, wire, wireReport, wireSource, negSeen>>

Counter(s, name, value) ==
  /\ Tick
  /\ snaps[s].live
  /\ lastOp' = Op("counter", s, <<>>)
  /\ IF snaps[s].ctype = "object"
       THEN /\ snaps' = [snaps EXCEPT ![s] = counter(@, name, value)]
            /\ sums' = [sums EXCEPT ![s] = AddDelta(@, name, value)]
            /\ negSeen' = (negSeen \/ value < 0)
            /\ out' = NoOut
       ELSE /\ out' = [err |-> "TypeError", report |-> NoReport]
            /\ UNCHANGED <<snaps, sums, negSeen>>
  /\ UNCHANGED <<heap, wire, wireReport, wireSource>>

AddCustomStat(s, name, n) ==
  /\ Tick
  /\ snaps[s].live
  /\ LET r == addCustomStat(snaps[s], heap, name, n)
     IN /\ snaps' = [snaps EXCEPT ![s] = r.st]
        /\ heap' = Collect(snaps', r.heap)
  /\ lastOp' = Op("addCustomStat", s, <<>>)
  /\ out' = NoOut
  /\ UNCHANGED <<wire, wireReport, wireSource, sums, negSeen>>

Reset(s) ==
  /\ Tick
  /\ snaps[s].live
  /\ snaps' = [snaps EXCEPT ![s] = reset(@)]
  /\ heap' = Collect(snaps', heap)
  /\ sums' = [sums EXCEPT ![s] = [NoSums EXCEPT !.origin = sums[s].origin]]
  /\ lastOp' = Op("reset", s, <<>>)
  /\ out' = NoOut
  /\ UNCHANGED <<wire, wireReport, wireSource, negSeen>>

Serialize(s) ==
  /\ Tick
  /\ snaps[s].live
  /\ snaps[s].ctype = "object"
  /\ wire' = serialize(snaps[s], heap)
  /\ wireReport' = report(snaps[s], heap)
  /\ wireSource' = ValueOf(snaps[s], heap)
  /\ lastOp' = Op("serialize", s, <<>>)
  /\ out' = NoOut
  /\ UNCHANGED <<snaps, heap, sums, negSeen>>

Deserialize ==
  /\ Tick
  /\ HasFreeSlot
  /\ wire.kind # "none"
  /\ LET r == deserialize(wire, heap)
     IN /\ out' = [err |-> r.err, report |-> NoReport]
        /\ IF r.err = "none"
             THEN /\ snaps' = [snaps EXCEPT ![FreeSlot] = r.st]
                  /\ heap' = Collect(snaps', r.heap)
                  /\ sums' = [sums EXCEPT ![FreeSlot] = Derived("deserialize")]
                  /\ lastOp' = Op("deserialize", FreeSlot, <<>>)
             ELSE /\ lastOp' = Op("deserialize", 0, <<>>)
                  /\ UNCHANGED <<snaps, heap, sums>>
  /\ UNCHANGED <<wire, wireReport, wireSource, negSeen>>

Combine(srcs) ==
  /\ Tick
  /\ HasFreeSlot
  /\ \A i \in 1 .. Len(srcs) : snaps[srcs[i]].live /\ snaps[srcs[i]].ctype = "object"
  /\ LET r == combine([i \in 1 .. Len(srcs) |-> snaps[srcs[i]]], heap)
     IN /\ snaps' = [snaps EXCEPT ![FreeSlot] = r.st]
        /\ heap' = Collect(snaps', r.heap)
  /\ sums' = [sums EXCEPT ![FreeSlot] = Derived("combine")]
  /\ lastOp' = Op("combine", FreeSlot, srcs)
  /\ out' = NoOut
  /\ UNCHANGED <<wire, wireReport, wireSource, negSeen>>

Report(s) ==
  /\ Tick
  /\ snaps[s].live
  /\ out' = report(snaps[s], heap)
  /\ lastOp' = Op("report", s, <<>>)
  /\ UNCHANGED <<snaps, heap, wire, wireReport, wireSource, sums, negSeen>>

Clone(s) ==
  /\ Tick
  /\ HasFreeSlot
  /\ snaps[s].live
  /\ LET r == clone(snaps[s], heap)
     IN /\ snaps' = [snaps EXCEPT ![FreeSlot] = r.st]
        /\ heap' = Collect(snaps', r.heap)
  /\ sums' = [sums EXCEPT ![FreeSlot] = Derived("clone")]
  /\ lastOp' = Op("clone", FreeSlot, <<s>>)
  /\ out' = NoOut
  /\ UNCHANGED <<wire, wireReport, wireSource, negSeen>>

\* Stats.prototype.free returns this.
Free(s) ==
  /\ Tick
  /\ snaps[s].live
  /\ lastOp' = Op("free", s, <<>>)
  /\ out' = NoOut
  /\ UNCHANGED <<snaps, heap, wire, wireReport, wireSource, sums, negSeen>>

SrcLists == {<<a>> : a \in SnapIds} \cup {<<a, b>> : a, b \in SnapIds}

Next ==
  \/ Create
  \/ \E s \in SnapIds, name \in CounterNames, value \in Deltas : Counter(s, name, value)
  \/ \E s \in SnapIds, name \in StatNames, n \in Samples : AddCustomStat(s, name, n)
  \/ \E s \in SnapIds : Reset(s)
  \/ \E s \in SnapIds : Serialize(s)
  \/ Deserialize
  \/ \E srcs \in SrcLists : Combine(srcs)
  \/ \E s \in SnapIds : Report(s)
  \/ \E s \in SnapIds : Clone(s)
  \/ \E s \in SnapIds : Free(s)

Spec == Init /\ [][Next]_vars

(***************************************************************************)
(* What a snapshot holds: its counters and, by name, the content of its    *)
(* histograms.                                                             *)
(***************************************************************************)
Content(s) ==
  [counters |-> snaps[s].counters,
   custom   |-> [n \in Keys(snaps[s].custom) |-> heap[Val(snaps[s].custom, n)]]]

Mutators == {"counter", "addCustomStat", "reset"}

(***************************************************************************)
(* C3.  A report() that immediately follows reset() on the same snapshot   *)
(* does not fail and returns a report with no counters, no custom stats    *)
(* and every counter-derived field undefined or empty.                     *)
(***************************************************************************)
EmptyReport(r) ==
  /\ r.counters = EmptyObj
  /\ DOMAIN r.customStats = {}
  /\ r.scenariosCreated = Undefined
  /\ r.scenariosCompleted = Undefined
  /\ r.requestsCompleted = Undefined
  /\ r.scenariosAvoided = Undefined
  /\ r.matches = Undefined
  /\ DOMAIN r.scenarioCounts = {}
  /\ DOMAIN r.errors = {}
  /\ DOMAIN r.codes = {}

\* C3: report() right after reset() succeeds with an empty report.
C3_ResetThenReport ==
  [][(lastOp.op = "reset" /\ lastOp'.op = "report" /\ lastOp'.s = lastOp.s)
       => (out'.err = "none" /\ EmptyReport(out'.report))]_vars

(***************************************************************************)
(* C8.  Every counter is >= 0, and no call but reset() lowers a counter or *)
(* removes a counter or a named distribution of a snapshot.                *)
(***************************************************************************)
NonNegative ==
  \A s \in Live : \A i \in 1 .. Len(snaps[s].counters) : snaps[s].counters[i].v >= 0

Kept(s) ==
  /\ \A i \in 1 .. Len(snaps[s].counters) :
       /\ Has(snaps'[s].counters, snaps[s].counters[i].k)
       /\ Val(snaps'[s].counters, snaps[s].counters[i].k) >= snaps[s].counters[i].v
  /\ Keys(snaps[s].custom) \subseteq Keys(snaps'[s].custom)

Monotone ==
  \A s \in Live : (lastOp'.op = "reset" /\ lastOp'.s = s) \/ Kept(s)

\* C8 as stated: counters are never negative and never lowered, keys and
\* distributions never removed, except by reset().
C8_Original == [][NonNegative' /\ Monotone]_vars

\* C8 for callers that pass no negative delta to counter(): as long as no
\* negative delta was passed, counters are never negative and never lowered,
\* keys and distributions never removed, except by reset().
C8_NonNegativeDeltas == [][(~negSeen') => (NonNegative' /\ Monotone)]_vars

C8_Witness ==
  /\ ~negSeen
  /\ lastOp.op = "counter"
  /\ \E s \in Live : \E i \in 1 .. Len(snaps[s].counters) :
       snaps[s].counters[i].v >= 2 * MaxDelta

(***************************************************************************)
(* C9.  On a snapshot made by create() or reset since, each counter is the *)
(* sum of the deltas passed to counter() for its name since then, names    *)
(* never passed are absent, and a counter() call changes no distribution   *)
(* and no other snapshot.                                                  *)
(***************************************************************************)
SumsAgree ==
  \A s \in Live : sums[s].plain => AsMap(snaps[s].counters) = sums[s].total

CounterFrame ==
  lastOp'.op = "counter" =>
    /\ \A s \in Live : Content(s)'.custom = Content(s).custom
    /\ \A s \in Live \ {lastOp'.s} : Content(s)' = Content(s)

\* C9: every step leaves the counters equal to the sums of the deltas, and a
\* counter() step changes no distribution and no other snapshot.
C9_CounterSums == [][SumsAgree' /\ CounterFrame]_vars

C9_Witness ==
  /\ lastOp.op = "counter"
  /\ sums[lastOp.s].plain
  /\ \E name \in DOMAIN sums[lastOp.s].total :
       /\ sums[lastOp.s].total[name] = 2 * MaxDelta
       /\ Val(snaps[lastOp.s].counters, name) = 2 * MaxDelta
  /\ Keys(snaps[lastOp.s].custom) # {}

(***************************************************************************)
(* C10.  combine() leaves every input as it was, and a later counter(),    *)
(* addCustomStat() or reset() on one snapshot (the result of a combine or  *)
(* one of its inputs in particular) changes no other snapshot.             *)
(***************************************************************************)
CombineFrame ==
  lastOp'.op = "combine" => \A s \in Live : Content(s)' = Content(s)

MutatorFrame ==
  lastOp'.op \in Mutators => \A s \in Live \ {lastOp'.s} : Content(s)' = Content(s)

\* C10: a combine step changes no existing snapshot, and a mutating call on
\* one snapshot changes no other.
C10_CombineShares == [][CombineFrame /\ MutatorFrame]_vars

C10_Witness ==
  /\ lastOp.op = "addCustomStat"
  /\ sums[lastOp.s].origin = "combine"
  /\ \E s \in Live \ {lastOp.s} :
       /\ Keys(snaps[s].custom) # {}
       /\ Keys(snaps[s].custom) \subseteq Keys(snaps[lastOp.s].custom)

(***************************************************************************)
(* combine as a function of its inputs.  Three snapshots, each filled by   *)
(* one of the call sequences InputSeqs, are combined in any order and      *)
(* grouping: the result slot holds the last combine's result, which may    *)
(* itself be an input of the next combine.                                 *)
(***************************************************************************)
InputIds == {1, 2, 3}

ResultSlot == Cardinality(InputIds) + 1

CallCounter(name, d) == [op |-> "counter", name |-> name, n |-> d]

CallStat(name, v) == [op |-> "addCustomStat", name |-> name, n |-> v]

NameA == ScenariosCreatedDot \o <<"a">>

InputSeqs ==
  { <<>>,
    <<CallCounter(ResponsesReceived, 0 - 1)>>,
    <<CallCounter(ResponsesReceived, MaxDelta)>>,
    <<CallCounter(ResponsesReceived, MaxDelta), CallCounter(ResponsesReceived, 0 - 1)>>,
    <<CallCounter(ResponsesReceived, MaxDelta), CallCounter(NameA, MaxDelta)>>,
    <<CallCounter(NameA, 0), CallCounter(ResponsesReceived, 0 - 1)>>,
    <<CallStat(ResponseTime, 1)>>,
    <<CallStat(ResponseTime, 2), CallCounter(ResponsesReceived, MaxDelta)>>,
    <<CallStat(<<"custom">>, 1), CallStat(ResponseTime, 1)>> }

RECURSIVE ApplyCalls(_, _, _)
ApplyCalls(w, s, calls) ==
  IF calls = <<>> THEN w
  ELSE LET c == calls[1]
           nw == IF c.op = "counter"
                   THEN [w EXCEPT !.snaps[s] = counter(@, c.name, c.n)]
                   ELSE LET r == addCustomStat(w.snaps[s], w.heap, c.name, c.n)
                        IN [snaps |-> [w.snaps EXCEPT ![s] = r.st], heap |-> r.heap]
       IN ApplyCalls(nw, s, Tail(calls))

RECURSIVE BuildInputs(_, _, _)
BuildInputs(w, todo, seqs) ==
  IF todo = {} THEN w
  ELSE LET s == SetMin(todo)
       IN BuildInputs(ApplyCalls(w, s, seqs[s]), todo \ {s}, seqs)

InitCombine ==
  /\ \E seqs \in [InputIds -> InputSeqs] :
       LET w == BuildInputs(
                  [snaps |-> [s \in InputIds \cup {ResultSlot} |->
                                IF s \in InputIds THEN create ELSE NoSnap],
                   heap  |-> <<>>],
                  InputIds, seqs)
       IN snaps = w.snaps /\ heap = w.heap
  /\ wire = NoPayload
  /\ wireReport = NoOut
  /\ wireSource = NoSource
  /\ out = NoOut
  /\ lastOp = Op("init", 0, <<>>)
  /\ sums = [s \in InputIds \cup {ResultSlot} |->
               IF s \in InputIds THEN [NoSums EXCEPT !.cover = {s}] ELSE NoSums]
  /\ negSeen = FALSE
  /\ steps = 0

\* result = combine(srcs), where no snapshot is merged twice.
CombineInto(srcs) ==
  /\ \A i \in 1 .. Len(srcs) : snaps[srcs[i]].live
  /\ \A i, j \in 1 .. Len(srcs) :
        i # j => sums[srcs[i]].cover \cap sums[srcs[j]].cover = {}
  /\ LET r == combine([i \in 1 .. Len(srcs) |-> snaps[srcs[i]]], heap)
     IN /\ snaps' = [snaps EXCEPT ![ResultSlot] = r.st]
        /\ heap' = Collect(snaps', r.heap)
  /\ sums' = [sums EXCEPT ![ResultSlot] =
                [Derived("combine") EXCEPT
                   !.cover = UNION {sums[srcs[i]].cover : i \in 1 .. Len(srcs)}]]
  /\ lastOp' = Op("combine", ResultSlot, srcs)
  /\ out' = NoOut
  /\ UNCHANGED <<wire, wireReport, wireSource, negSeen, steps>>

\* The lists combined: two or three of the inputs in any order, or the
\* previous result with one input, in either order.
SrcPerms ==
  {q \in [1 .. 2 -> InputIds] \cup [1 .. 3 -> InputIds] :
     \A i, j \in 1 .. Len(q) : i # j => q[i] # q[j]}
    \cup {<<ResultSlot, c>> : c \in InputIds}
    \cup {<<c, ResultSlot>> : c \in InputIds}

NextCombine == \E srcs \in SrcPerms : CombineInto(srcs)

SpecCombine == InitCombine /\ [][NextCombine]_vars

RECURSIVE SumOver(_, _)
SumOver(S, name) ==
  IF S = {} THEN 0
  ELSE LET s == SetMin(S)
       IN (IF Has(snaps[s].counters, name) THEN Val(snaps[s].counters, name) ELSE 0)
            + SumOver(S \ {s}, name)

(***************************************************************************)
(* C1.  The counters of combine's result are exactly the keys some input   *)
(* has, each with the sum of its values over the inputs that have it.      *)
(***************************************************************************)
\* C1: after combine, the result's counters are the per-name sums over the
\* merged inputs, with no other name.
C1_CombineSums ==
  lastOp.op = "combine" =>
    AsMap(snaps[ResultSlot].counters) =
      [name \in UNION {Keys(snaps[s].counters) : s \in sums[ResultSlot].cover} |->
         SumOver(sums[ResultSlot].cover, name)]

C1_Witness ==
  /\ lastOp.op = "combine"
  /\ lastOp.srcs = <<2, 1, 3>>
  /\ \E name \in Keys(snaps[1].counters) :
       /\ Has(snaps[2].counters, name)
       /\ Val(snaps[1].counters, name) + Val(snaps[2].counters, name) = 0
       /\ Has(snaps[3].counters, name)
  /\ \E name \in Keys(snaps[3].counters) :
       ~Has(snaps[1].counters, name) /\ ~Has(snaps[2].counters, name)

(***************************************************************************)
(* C7.  Whatever the order and the grouping in which the three snapshots   *)
(* are combined, the result has the counters and, name by name, the        *)
(* distribution content of combine([A, B, C]).                             *)
(***************************************************************************)
Flat == combine([i \in 1 .. Cardinality(InputIds) |-> snaps[i]], heap)

\* C7: any order and grouping of the three inputs gives the content of
\* combine([A, B, C]).
C7_OrderAndGrouping ==
  (lastOp.op = "combine" /\ sums[ResultSlot].cover = InputIds) =>
     ValueOf(snaps[ResultSlot], heap) = ValueOf(Flat.st, Flat.heap)

C7_Witness ==
  /\ lastOp.op = "combine"
  /\ lastOp.srcs = <<3, ResultSlot>>
  /\ sums[ResultSlot].cover = InputIds
  /\ \E name \in Keys(snaps[1].counters) :
       /\ Has(snaps[2].counters, name)
       /\ Val(snaps[1].counters, name) # Val(snaps[2].counters, name)
  /\ Has(snaps[1].custom, ResponseTime)
  /\ Has(snaps[3].custom, ResponseTime)
  /\ heap[Val(snaps[1].custom, ResponseTime)] # heap[Val(snaps[3].custom, ResponseTime)]

(***************************************************************************)
(* report as a function of the counters.  One snapshot holds at most two   *)
(* of the counter names ReportKeys, set by counter() calls in either       *)
(* order, and one recorded response time.                                  *)
(***************************************************************************)
ReportKeys ==
  { ScenariosCreated,
    ScenariosCreatedDot \o <<"a">>,
    ScenariosCreatedDot \o <<"a", ".", "b">>,
    ScenariosCreatedDot \o <<"a", ".">> \o ScenariosCreatedDot \o <<"b">>,
    ScenariosCreatedDot \o <<"a", ".">> \o ScenariosCreatedDot \o <<"c">>,
    EngineHttpResponseCode \o <<".", "200">>,
    EngineHttpResponseCode,
    EngineHttpResponseCode \o <<"s", ".", "x">>,
    ErrorsDot \o <<"ETIMEDOUT">>,
    ResponsesReceived,
    Matches }

ReportValues == {1, MaxDelta}

KeyLists ==
  {q \in UNION {[1 .. n -> ReportKeys] : n \in 0 .. 2} :
     \A i, j \in 1 .. Len(q) : i # j => q[i] # q[j]}

InitReport ==
  /\ \E keys \in KeyLists : \E vals \in [1 .. Len(keys) -> ReportValues] :
       LET w == ApplyCalls([snaps |-> [s \in {1} |-> create], heap |-> <<>>], 1,
                           [i \in 1 .. Len(keys) |-> CallCounter(keys[i], vals[i])]
                             \o <<CallStat(ResponseTime, 1)>>)
       IN snaps = w.snaps /\ heap = w.heap
  /\ wire = NoPayload
  /\ wireReport = NoOut
  /\ wireSource = NoSource
  /\ out = NoOut
  /\ lastOp = Op("init", 0, <<>>)
  /\ sums = [s \in {1} |-> Derived("create")]
  /\ negSeen = FALSE
  /\ steps = 0

NextReport == \E s \in DOMAIN snaps : Report(s)

SpecReport == InitReport /\ [][NextReport]_vars

\* The counters whose name is `prefix` followed by a rest, by that rest.
Rest(name, prefix) == SubSeq(name, Len(prefix) + 1, Len(name))

ByRest(c, prefix) ==
  [n \in {Rest(name, prefix) : name \in {k \in Keys(c) : StartsWith(k, prefix)}} |->
     Val(c, prefix \o n)]

Reported == lastOp.op = "report" /\ out.err = "none"

(***************************************************************************)
(* C4.  report().codes has one entry for each counter named               *)
(* 'engine.http.response_code.<code>', under <code>, with its value, and   *)
(* no other entry.                                                         *)
(***************************************************************************)
\* C4: codes is exactly the map <code> -> value of the
\* 'engine.http.response_code.<code>' counters.
C4_Codes ==
  Reported =>
    out.report.codes = ByRest(snaps[lastOp.s].counters, EngineHttpResponseCode \o <<".">>)

(***************************************************************************)
(* C5.  report().scenarioCounts has one entry for each counter named      *)
(* 'scenarios.created.<name>', under the whole of <name>, with its value;  *)
(* the counter 'scenarios.created' is reported as scenariosCreated only.   *)
(***************************************************************************)
\* C5: scenarioCounts is exactly the map <name> -> value of the
\* 'scenarios.created.<name>' counters, <name> being the whole remainder.
C5_ScenarioCounts ==
  Reported =>
    /\ out.report.scenarioCounts = ByRest(snaps[lastOp.s].counters, ScenariosCreatedDot)
    /\ out.report.scenariosCreated = Lookup(snaps[lastOp.s].counters, ScenariosCreated)

(***************************************************************************)
(* deserialize as a function of the payload, followed by calls on the      *)
(* snapshot it returns.                                                    *)
(***************************************************************************)
CounterMembers ==
  {q \in UNION {[1 .. n -> [k : CounterNames, v : {NumText(d) : d \in {0 - 1, 0, 12}}]] :
                  n \in 0 .. 2} :
     \A i, j \in 1 .. Len(q) : i # j => q[i].k # q[j].k}

HistoMembers ==
  { <<>>,
    <<[k |-> ResponseTime, v |-> encodeIntoBase64String(SetToBag({1}))]>>,
    <<[k |-> ResponseTime, v |-> encodeIntoBase64String((1 :> 1) @@ (2 :> 2))]>>,
    <<[k |-> ResponseTime, v |-> Undecodable]>>,
    <<[k |-> <<"custom">>, v |-> encodeIntoBase64String(SetToBag({2}))],
      [k |-> ResponseTime, v |-> Undecodable]>> }

Payloads ==
  {[kind |-> t, counters |-> Missing, encodedHistograms |-> Missing] :
     t \in {"garbage", "null", "scalar"}}
    \cup [kind : {"object"},
          counters : {Missing, JString} \cup {JMembers(m) : m \in CounterMembers},
          encodedHistograms : {Missing} \cup {JMembers(m) : m \in HistoMembers}]

InitDeser ==
  /\ snaps = [s \in SnapIds |-> NoSnap]
  /\ heap = <<>>
  /\ wire \in Payloads
  /\ wireReport = NoOut
  /\ wireSource = NoSource
  /\ out = NoOut
  /\ lastOp = Op("init", 0, <<>>)
  /\ sums = [s \in SnapIds |-> NoSums]
  /\ negSeen = FALSE
  /\ steps = 0

NextDeser ==
  \/ Deserialize
  \/ \E s \in SnapIds, name \in CounterNames, value \in Deltas : Counter(s, name, value)
  \/ \E s \in SnapIds : Report(s)

SpecDeser == InitDeser /\ [][NextDeser]_vars

\* The payload is JSON text of the expected shape with decodable histograms.
WellShaped(p) ==
  /\ p.kind = "object"
  /\ p.counters.t = "members"
  /\ p.encodedHistograms.t = "members"
  /\ \A i \in 1 .. Len(p.encodedHistograms.m) : Decodable(p.encodedHistograms.m[i].v)

(***************************************************************************)
(* C6.  deserialize() returns a snapshot only for a payload of the         *)
(* expected shape whose histograms decode, and the snapshot it returns     *)
(* has a counters object; for every other payload it fails.                *)
(***************************************************************************)
\* C6: a snapshot is returned only for a well-shaped payload, and it is usable.
C6_DeserializeRejects ==
  (lastOp.op = "deserialize" /\ out.err = "none") =>
     (WellShaped(wire) /\ snaps[lastOp.s].ctype = "object")

(***************************************************************************)
(* The transfer of a snapshot.  A snapshot filled by one of the call       *)
(* sequences InputSeqs is filled further, serialized, and deserialized     *)
(* into new snapshots.                                                     *)
(***************************************************************************)
InitWire ==
  /\ \E calls \in InputSeqs :
       LET w == ApplyCalls([snaps |-> [s \in SnapIds |-> IF s = 1 THEN create ELSE NoSnap],
                            heap  |-> <<>>], 1, calls)
       IN snaps = w.snaps /\ heap = w.heap
  /\ wire = NoPayload
  /\ wireReport = NoOut
  /\ wireSource = NoSource
  /\ out = NoOut
  /\ lastOp = Op("init", 0, <<>>)
  /\ sums = [s \in SnapIds |-> Derived("create")]
  /\ negSeen = FALSE
  /\ steps = 0

NextWire ==
  \/ \E s \in SnapIds, name \in CounterNames, value \in Deltas : Counter(s, name, value)
  \/ \E s \in SnapIds, name \in StatNames, n \in Samples : AddCustomStat(s, name, n)
  \/ \E s \in SnapIds : Serialize(s)
  \/ Deserialize
  \/ \E s \in SnapIds : Report(s)

SpecWire == InitWire /\ [][NextWire]_vars

(***************************************************************************)
(* C2.  The snapshot deserialize() makes of a payload reports what the     *)
(* serialized snapshot reported when serialize() wrote the payload, in     *)
(* every field of the report (the timestamp is not part of the model):     *)
(* the counters, every counter-derived field, and min, max and the         *)
(* percentiles of every named distribution; and it holds the same counters *)
(* and, under every distribution name, the same recorded samples.          *)
(***************************************************************************)
\* C2: the deserialized snapshot reports and holds what the serialized one did.
C2_RoundTripReport ==
  (lastOp.op = "deserialize" /\ lastOp.s # 0) =>
     /\ report(snaps[lastOp.s], heap) = wireReport
     /\ ValueOf(snaps[lastOp.s], heap) = wireSource

C2_Witness ==
  /\ lastOp.op = "deserialize"
  /\ lastOp.s # 0
  /\ wireReport.err = "none"
  /\ \E v \in {0 - 1, MaxDelta + MaxDelta} :
       wireReport.report.requestsCompleted = Def(v)
  /\ DOMAIN wireReport.report.customStats = StatNames

====
